---- MODULE Spec2Model ----
(***************************************************************************)
(* Model of the event debouncer of notify (src/debounce/mod.rs):           *)
(* Debounce::event, Debounce::check_partial_rename, remove_repeated_events *)
(* and restart_timer, together with the WatchTimer they drive.             *)
(*                                                                         *)
(* The debouncer state is carried through the handlers as a record `s`     *)
(* (the fields of struct Debounce, the shared OperationsBuffer, the timer   *)
(* and the output channel tx), so that one raw event is one atomic step,   *)
(* exactly the statements of Debounce::event in their order.               *)
(***************************************************************************)
EXTENDS Naturals, Sequences, FiniteSets, TLC

VARIABLES
    input,              \* raw events the backend delivers, in order
    pos,                \* number of raw events delivered so far
    operations_buffer,  \* HashMap<PathBuf, (Option<Op>, Option<PathBuf>, Option<u64>)>
    rename_path,        \* Debounce.rename_path
    rename_cookie,      \* Debounce.rename_cookie
    queue,              \* WatchTimer: scheduled (id, path), in deadline order
    ignored,            \* WatchTimer: cancelled timer ids
    next_id,            \* WatchTimer: next timer id
    tx,                 \* output channel: every event sent so far
    aborted,            \* the ingest thread panicked (unreachable!/expect)
    log                 \* per delivered raw event: what the call started from

vars == <<input, pos, operations_buffer, rename_path, rename_cookie,
          queue, ignored, next_id, tx, aborted, log>>

\* ------------------------------------------------------------- bounds
MaxEvents == 4
MaxPrefix == 1
MaxInterleave == 1
MaxHistory == 2

\* ------------------------------------------------------------- values
Paths == {"a", "b", "c"}
NoPath == "-"
Cookies == {1, 2}
NoCookie == 0
NoTimer == 0

CREATE == "CREATE"
WRITE == "WRITE"
CHMOD == "CHMOD"
RENAME == "RENAME"
REMOVE == "REMOVE"
RESCAN == "RESCAN"
NoOp == "None"

\* an Op is a set of bits
OpBits == {CREATE, WRITE, CHMOD, RENAME, REMOVE}

\* events of the output channel
NoticeWrite(p) == <<"NoticeWrite", p>>
NoticeRemove(p) == <<"NoticeRemove", p>>
Create(p) == <<"Create", p>>
Write(p) == <<"Write", p>>
Chmod(p) == <<"Chmod", p>>
Remove(p) == <<"Remove", p>>
Rename(from, to) == <<"Rename", from, to>>
Rescan == <<"Rescan">>

\* ------------------------------------------------------------- state record
St ==
    [buf |-> operations_buffer, rename_path |-> rename_path,
     rename_cookie |-> rename_cookie, queue |-> queue, ignored |-> ignored,
     next_id |-> next_id, tx |-> tx, aborted |-> aborted, call |-> pos]

EmptyBuf == [q \in {} |-> [op |-> "None", from |-> "-", tid |-> 0]]

Fresh ==
    [buf |-> EmptyBuf, rename_path |-> NoPath, rename_cookie |-> NoCookie,
     queue |-> <<>>, ignored |-> {}, next_id |-> 1, tx |-> <<>>,
     aborted |-> FALSE, call |-> 0]

\* tx.send(ev) from the ingest thread; `call` and `tid` record which raw event
\* (by index) and which timer (0: none) the emission belongs to
Send(s, ev) ==
    [s EXCEPT !.tx = Append(@, [ev |-> ev, call |-> s.call, tid |-> NoTimer])]

\* unreachable!() / expect(): the ingest thread panics holding the buffer lock
Panic(s) == [s EXCEPT !.aborted = TRUE]

\* ------------------------------------------------------------- WatchTimer
\* schedule(path): a new one-shot timer, ids ascending
Schedule(s, path) ==
    [s EXCEPT !.queue = Append(@, [id |-> s.next_id, path |-> path]),
              !.next_id = @ + 1]

\* ignore(timer_id)
Ignore(s, id) == [s EXCEPT !.ignored = @ \cup {id}]

\* ------------------------------------------------------------- buffer
HasEntry(s, p) == p \in DOMAIN s.buf

EmptyEntry == [op |-> NoOp, from |-> NoPath, tid |-> NoTimer]

BufPut(buf, p, e) ==
    [q \in (DOMAIN buf) \cup {p} |-> IF q = p THEN e ELSE buf[q]]

BufRemove(buf, p) == [q \in (DOMAIN buf) \ {p} |-> buf[q]]

\* op_buf.entry(path).or_insert((None, None, None))
OrInsert(s, p) ==
    IF HasEntry(s, p) THEN s ELSE [s EXCEPT !.buf = BufPut(@, p, EmptyEntry)]

SetOp(s, p, o) == [s EXCEPT !.buf = BufPut(@, p, [@[p] EXCEPT !.op = o])]

SetFrom(s, p, f) == [s EXCEPT !.buf = BufPut(@, p, [@[p] EXCEPT !.from = f])]

\* restart_timer(timer_id, path, timer): timer_id is the slot of entry `key`
restart_timer(s, key, path) ==
    LET old == s.buf[key].tid
        s1 == IF old # NoTimer THEN Ignore(s, old) ELSE s
        s2 == Schedule(s1, path)
    IN  [s2 EXCEPT !.buf = BufPut(@, key, [@[key] EXCEPT !.tid = s1.next_id])]

\* ------------------------------------------------------------- check_partial_rename
\* a reconciliation that only a RENAME with another cookie triggers
PairBroken_renameOnly(s, op, cookie) ==
    /\ op = {RENAME}
    /\ s.rename_cookie = NoCookie \/ s.rename_cookie # cookie

\* line 159: the event is not the matching second half of the open pair
PairBroken(s, op, cookie) ==
    \/ op # {RENAME}
    \/ s.rename_cookie = NoCookie
    \/ s.rename_cookie # cookie

\* lines 160-176: rename_path still exists on disk
PartialRenameExists(s, path) ==
    LET rp == s.rename_path
        e == s.buf[rp]
    IN  IF e.op = RENAME /\ e.from = NoPath
            THEN restart_timer(SetOp(s, rp, CREATE), rp, path)
        ELSE IF e.op = REMOVE
            THEN restart_timer(SetOp(s, rp, WRITE), rp, path)
        ELSE Panic(s)

\* lines 176-203: rename_path no longer exists on disk; the CREATE arm only
\* cancels the timer, the entry is removed at lines 207-209
PartialRenameGone(s, path) ==
    LET rp == s.rename_path
        e == s.buf[rp]
    IN  IF e.op = CREATE
            THEN IF e.tid # NoTimer THEN Ignore(s, e.tid) ELSE s
        ELSE IF e.op \in {WRITE, CHMOD}
            THEN restart_timer(Send(SetOp(s, rp, REMOVE), NoticeRemove(path)), rp, path)
        ELSE IF e.op = RENAME
            THEN restart_timer(SetOp(s, rp, REMOVE), rp, path)
        ELSE Panic(s)

\* lines 153-211; srcExists is the outcome of rename_path.exists()
check_partial_rename(s, path, op, cookie, srcExists) ==
    IF ~HasEntry(s, s.rename_path) THEN Panic(s)
    ELSE IF ~PairBroken(s, op, cookie) THEN s
    ELSE LET wasCreate == s.buf[s.rename_path].op = CREATE
             s1 == IF srcExists THEN PartialRenameExists(s, path)
                                ELSE PartialRenameGone(s, path)
             s2 == IF s1.aborted THEN s1 ELSE [s1 EXCEPT !.rename_path = NoPath]
         IN  IF ~s2.aborted /\ ~srcExists /\ wasCreate
                 THEN [s2 EXCEPT !.buf = BufRemove(@, path)]
                 ELSE s2

\* ------------------------------------------------------------- remove_repeated_events
\* lines 403-418; prev is the dominant of the existing entry
remove_repeated_events(op, prev) ==
    IF prev = NoOp THEN op
    ELSE LET op1 == IF prev \in {CREATE, WRITE, CHMOD, RENAME} THEN op \ {CREATE} ELSE op
             op2 == IF prev = REMOVE THEN op1 \ {REMOVE} ELSE op1
         IN  IF prev = RENAME /\ op2 \ {RENAME} # {} THEN op2 \ {RENAME} ELSE op2

\* lines 223-231; pathExists is the outcome of path.exists()
EffectiveOp(s, path, op, pathExists) ==
    IF HasEntry(s, path) THEN remove_repeated_events(op, s.buf[path].op)
    ELSE IF {CREATE, REMOVE} \subseteq op
        THEN IF pathExists THEN op \ {REMOVE} ELSE op \ {CREATE}
    ELSE op

\* ------------------------------------------------------------- Debounce::event, per bit
\* lines 233-256
HandleCreate(s, path) ==
    LET s1 == OrInsert(s, path)
        d == s1.buf[path].op
    IN  IF d = REMOVE THEN restart_timer(SetOp(s1, path, WRITE), path, path)
        ELSE IF d = NoOp THEN restart_timer(SetOp(s1, path, CREATE), path, path)
        ELSE Panic(s1)

\* lines 257-276
HandleWrite(s, path) ==
    LET s1 == OrInsert(s, path)
        d == s1.buf[path].op
    IN  IF d \in {CREATE, WRITE} THEN restart_timer(s1, path, path)
        ELSE IF d \in {CHMOD, RENAME, NoOp}
            THEN restart_timer(Send(SetOp(s1, path, WRITE), NoticeWrite(path)), path, path)
        ELSE Panic(s1)

\* lines 277-296
HandleChmod(s, path) ==
    LET s1 == OrInsert(s, path)
        d == s1.buf[path].op
    IN  IF d \in {CREATE, WRITE, CHMOD} THEN restart_timer(s1, path, path)
        ELSE IF d \in {RENAME, NoOp} THEN restart_timer(SetOp(s1, path, CHMOD), path, path)
        ELSE Panic(s1)

\* line 298: this RENAME is the second half of the open pair
IsSecondHalf(s, cookie) ==
    /\ s.rename_path # NoPath
    /\ s.rename_cookie # NoCookie
    /\ s.rename_cookie = cookie

\* a merge that always takes the path of the first half as the source
UseFromPath_latest(from_from_path, rp) == rp

\* line 306: from_from_path.or(self.rename_path.clone())
UseFromPath(from_from_path, rp) ==
    IF from_from_path # NoPath THEN from_from_path ELSE rp

\* a merge that moves the dominant and forgets the source path
MergeInto_dropsFrom(s, path, from_operation, use_from_path) ==
    IF from_operation \in {CREATE, WRITE, CHMOD, RENAME}
        THEN restart_timer(SetFrom(SetOp(s, path, from_operation), path, NoPath), path, path)
    ELSE Panic(s)

\* lines 307-326: merge the removed source entry into the entry of `path`
MergeInto(s, path, from_operation, use_from_path) ==
    IF from_operation = CREATE
        THEN restart_timer(SetFrom(SetOp(s, path, from_operation), path, NoPath), path, path)
    ELSE IF from_operation \in {WRITE, CHMOD, RENAME}
        THEN restart_timer(SetFrom(SetOp(s, path, from_operation), path, use_from_path), path, path)
    ELSE Panic(s)

\* lines 299-328
RenameSecondHalf(s, path) ==
    IF ~HasEntry(s, s.rename_path) THEN Panic(s)
    ELSE LET rp == s.rename_path
             src == s.buf[rp]
             s1 == [s EXCEPT !.buf = BufRemove(@, rp)]
             s2 == IF src.tid # NoTimer THEN Ignore(s1, src.tid) ELSE s1
             s3 == MergeInto(OrInsert(s2, path), path, src.op, UseFromPath(src.from, rp))
         IN  IF s3.aborted THEN s3 ELSE [s3 EXCEPT !.rename_path = NoPath]

\* a first half that sends NoticeRemove whatever the entry holds
FirstHalfEntry_notifies(s, path) ==
    LET s1 == OrInsert(s, path)
        d == s1.buf[path].op
    IN  IF d \in {CREATE, RENAME, WRITE, CHMOD}
            THEN restart_timer(Send(s1, NoticeRemove(path)), path, path)
        ELSE IF d = NoOp
            THEN restart_timer(Send(SetOp(s1, path, RENAME), NoticeRemove(path)), path, path)
        ELSE Panic(s1)

\* lines 334-355: the RENAME column of the entry at `path`
FirstHalfEntry(s, path) ==
    LET s1 == OrInsert(s, path)
        d == s1.buf[path].op
    IN  IF d \in {CREATE, RENAME} THEN restart_timer(s1, path, path)
        ELSE IF d \in {WRITE, CHMOD}
            THEN restart_timer(Send(s1, NoticeRemove(path)), path, path)
        ELSE IF d = NoOp
            THEN restart_timer(Send(SetOp(s1, path, RENAME), NoticeRemove(path)), path, path)
        ELSE Panic(s1)

\* lines 329-356
RenameFirstHalf(s, path, cookie) ==
    FirstHalfEntry([s EXCEPT !.rename_path = path, !.rename_cookie = cookie], path)

\* lines 297-357
HandleRename(s, path, cookie) ==
    IF IsSecondHalf(s, cookie) THEN RenameSecondHalf(s, path)
    ELSE RenameFirstHalf(s, path, cookie)

\* a collapse that leaves rename_path as it is
DropEntry_keepsRenamePath(s, path) == [s EXCEPT !.buf = BufRemove(@, path)]

\* lines 392-397: op_buf.remove(&path) and the rename_path reset of the collapse
DropEntry(s, path) ==
    [s EXCEPT !.buf = BufRemove(@, path),
              !.rename_path = IF @ = path THEN NoPath ELSE @]

\* a REMOVE that sends NoticeRemove for a RENAME entry as well
HandleRemove_notifiesRenamed(s, path) ==
    LET s1 == OrInsert(s, path)
        e == s1.buf[path]
    IN  IF e.op = CREATE
            THEN DropEntry(IF e.tid # NoTimer THEN Ignore(s1, e.tid) ELSE s1, path)
        ELSE IF e.op \in {WRITE, CHMOD, RENAME, NoOp}
            THEN restart_timer(Send(SetOp(s1, path, REMOVE), NoticeRemove(path)), path, path)
        ELSE IF e.op = REMOVE THEN s1
        ELSE Panic(s1)

\* lines 358-398
HandleRemove(s, path) ==
    LET s1 == OrInsert(s, path)
        e == s1.buf[path]
    IN  IF e.op = CREATE
            THEN DropEntry(IF e.tid # NoTimer THEN Ignore(s1, e.tid) ELSE s1, path)
        ELSE IF e.op \in {WRITE, CHMOD, NoOp}
            THEN restart_timer(Send(SetOp(s1, path, REMOVE), NoticeRemove(path)), path, path)
        ELSE IF e.op = RENAME THEN restart_timer(SetOp(s1, path, REMOVE), path, path)
        ELSE IF e.op = REMOVE THEN s1
        ELSE Panic(s1)

\* one bit of the effective op; a panic ends the call
Step(s, has, next) == IF s.aborted \/ ~has THEN s ELSE next

\* lines 213-400
Event(s, path, op, cookie, srcExists, pathExists) ==
    LET s0 == IF RESCAN \in op THEN Send(s, Rescan) ELSE s
        s1 == IF s0.rename_path # NoPath
                  THEN check_partial_rename(s0, path, op, cookie, srcExists)
                  ELSE s0
        eff == EffectiveOp(s1, path, op, pathExists)
        s2 == Step(s1, CREATE \in eff, HandleCreate(s1, path))
        s3 == Step(s2, WRITE \in eff, HandleWrite(s2, path))
        s4 == Step(s3, CHMOD \in eff, HandleChmod(s3, path))
        s5 == Step(s4, RENAME \in eff, HandleRename(s4, path, cookie))
        s6 == Step(s5, REMOVE \in eff, HandleRemove(s5, path))
    IN  s6

\* lines 93-108: EventTx::send in Debounced mode, for a raw event whose op is Ok;
\* a raw event without a path is the rescan signal or is dropped
EventTx_send(s, e, srcExists, pathExists) ==
    IF e.path = NoPath
        THEN IF e.op = {RESCAN} /\ e.cookie = NoCookie THEN Send(s, Rescan) ELSE s
    ELSE Event(s, e.path, e.op, e.cookie, srcExists, pathExists)

\* ------------------------------------------------------------- timer worker
\* the debounced event built from a drained entry (emission mapping)
Emission(path, e) ==
    IF e.op = CREATE THEN <<Create(path)>>
    ELSE IF e.op = WRITE THEN <<Write(path)>>
    ELSE IF e.op = CHMOD THEN <<Chmod(path)>>
    ELSE IF e.op = REMOVE THEN <<Remove(path)>>
    ELSE IF e.op = RENAME /\ e.from # NoPath THEN <<Rename(e.from, path)>>
    ELSE IF e.op = RENAME THEN <<Create(path)>>
    ELSE <<>>

\* the worker drops the cancelled ids at the head of its queue
RECURSIVE SkipIgnored(_)
SkipIgnored(s) ==
    IF s.queue = <<>> \/ Head(s.queue).id \notin s.ignored THEN s
    ELSE SkipIgnored([s EXCEPT !.queue = Tail(@), !.ignored = @ \ {Head(s.queue).id}])

\* the drain of the entry of h.path by timer h
Drain(s, h) ==
    LET out == Emission(h.path, s.buf[h.path])
    IN  [s EXCEPT !.buf = BufRemove(@, h.path),
                  !.tx = @ \o [n \in 1..Len(out) |->
                                 [ev |-> out[n], call |-> s.call, tid |-> h.id]]]

\* one run of the worker: cancelled ids are dropped, the earliest other id
\* removes the buffer entry of its path, if there is one, and emits its
\* debounced event
FireHead(s) ==
    LET s1 == SkipIgnored(s)
    IN  IF s1.queue = <<>> THEN s1
        ELSE LET h == Head(s1.queue)
                 s2 == [s1 EXCEPT !.queue = Tail(@)]
             IN  IF HasEntry(s2, h.path) THEN Drain(s2, h) ELSE s2

\* ------------------------------------------------------------- raw events
Ev(p, op, c) == [path |-> p, op |-> op, cookie |-> c]

SeqsUpTo(S, n) == UNION {[1..k -> S] : k \in 0..n}

\* single-bit raw events; a cookie comes with RENAME only
PlainEvents(ps) == {Ev(p, {b}, NoCookie) : p \in ps, b \in OpBits \ {RENAME}}

RenameEvents(ps, cs) == {Ev(p, {RENAME}, c) : p \in ps, c \in cs}

\* ------------------------------------------------------------- actions
Install(s) ==
    /\ operations_buffer' = s.buf
    /\ rename_path' = s.rename_path
    /\ rename_cookie' = s.rename_cookie
    /\ queue' = s.queue
    /\ ignored' = s.ignored
    /\ next_id' = s.next_id
    /\ tx' = s.tx
    /\ aborted' = s.aborted

\* the backend delivers the next raw event: one call of Debounce::event.
\* The two existence checks are inputs; one that the call cannot reach is FALSE.
Ingest ==
    /\ ~aborted
    /\ pos < Len(input)
    /\ \E srcExists, pathExists \in BOOLEAN :
          LET e == input[pos + 1] IN
          /\ srcExists => rename_path # NoPath /\ e.path # NoPath
          /\ pathExists => {CREATE, REMOVE} \subseteq e.op /\ e.path # NoPath
          /\ Install(EventTx_send([St EXCEPT !.call = pos + 1], e, srcExists, pathExists))
          /\ log' = Append(log, [had |-> e.path \in DOMAIN operations_buffer,
                                 open |-> rename_path # NoPath,
                                 nid |-> next_id,
                                 srcExists |-> srcExists,
                                 pathExists |-> pathExists])
    /\ pos' = pos + 1
    /\ UNCHANGED input

\* the timer worker handles the earliest scheduled timer
TimerFire ==
    /\ ~aborted
    /\ queue # <<>>
    /\ Install(FireHead(St))
    /\ UNCHANGED <<input, pos, log>>

Next == Ingest \/ TimerFire

InitState ==
    /\ pos = 0
    /\ operations_buffer = Fresh.buf
    /\ rename_path = Fresh.rename_path
    /\ rename_cookie = Fresh.rename_cookie
    /\ queue = Fresh.queue
    /\ ignored = Fresh.ignored
    /\ next_id = Fresh.next_id
    /\ tx = Fresh.tx
    /\ aborted = Fresh.aborted
    /\ log = <<>>

\* every sequence of at most MaxEvents single-bit raw events on two paths
RawEvents == PlainEvents({"a", "b"}) \cup RenameEvents({"a", "b"}, {NoCookie, 1})

Init ==
    /\ input \in SeqsUpTo(RawEvents, MaxEvents)
    /\ InitState

Spec == Init /\ [][Next]_vars

\* rename scenarios on three paths after any short history: a pair a -> b whose
\* halves are separated by raw events on c, and a chain a -> b, b -> c
PrefixEvents == PlainEvents(Paths) \cup RenameEvents(Paths, Cookies \cup {NoCookie})

PairInputs ==
    {<<Ev("a", {RENAME}, 1)>> \o mid \o <<Ev("b", {RENAME}, 1)>> :
        mid \in SeqsUpTo(PlainEvents({"c"}), MaxInterleave)}

ChainInputs ==
    {<<Ev("a", {RENAME}, 1), Ev("b", {RENAME}, 1),
       Ev("b", {RENAME}, c2), Ev("c", {RENAME}, c2)>> : c2 \in Cookies}

InitRename ==
    /\ input \in {pre \o body : pre \in SeqsUpTo(PrefixEvents, MaxPrefix),
                                body \in PairInputs \cup ChainInputs}
    /\ InitState

SpecRename == InitRename /\ [][Next]_vars

\* one raw event with any non-empty combination of the five bits, delivered
\* once or twice to a fresh debouncer
DupEvents ==
    {Ev("a", op, c) : op \in (SUBSET OpBits) \ {{}}, c \in {NoCookie, 1}}

InitDup ==
    /\ input \in {<<e>> : e \in DupEvents} \cup {<<e, e>> : e \in DupEvents}
    /\ InitState

SpecDup == InitDup /\ [][Next]_vars

\* one raw event on a with any non-empty combination of the five bits (a cookie
\* comes with RENAME only), delivered after any history of at most MaxHistory
\* single-bit raw events
MultiEvents ==
    {e \in {Ev("a", op, c) : op \in (SUBSET OpBits) \ {{}}, c \in {NoCookie, 1}} :
        RENAME \notin e.op => e.cookie = NoCookie}

InitMulti ==
    /\ input \in {pre \o <<e>> : pre \in SeqsUpTo(RawEvents, MaxHistory),
                                  e \in MultiEvents}
    /\ InitState

SpecMulti == InitMulti /\ [][Next]_vars

\* a raw event that carries RESCAN, with or without a path, a cookie and other
\* bits, delivered after any short history
RescanEvents ==
    {Ev(p, {RESCAN} \cup op, c) :
        p \in {NoPath, "a"}, op \in SUBSET OpBits, c \in {NoCookie, 1}}

InitRescan ==
    /\ input \in {pre \o <<e>> : pre \in SeqsUpTo(RawEvents, MaxPrefix),
                                  e \in RescanEvents}
    /\ InitState

SpecRescan == InitRescan /\ [][Next]_vars

\* ------------------------------------------------------------- reading the output
\* the path a debounced event is for (its last component)
Dest(ev) == ev[Len(ev)]

Names(ev, p) == \E n \in 2..Len(ev) : ev[n] = p

\* indices of tx sent by the timer worker / by the ingest thread
TimerSent == {k \in DOMAIN tx : tx[k].tid # NoTimer}

IngestSent == {k \in DOMAIN tx : tx[k].tid = NoTimer}

\* a timer drained the entry of p while the last delivered raw event was one of i..j
DrainedIn(p, i, j) ==
    \E k \in TimerSent : tx[k].call \in i..j /\ Dest(tx[k].ev) = p

\* the events of tx at the indices K, in order
RECURSIVE Pick(_, _)
Pick(K, n) ==
    IF n > Len(tx) THEN <<>>
    ELSE IF n \in K THEN <<tx[n].ev>> \o Pick(K, n + 1)
    ELSE Pick(K, n + 1)

EventsAt(K) == Pick(K, 1)

IsOp(e, p, bit) == e.path = p /\ e.op = {bit}

\* ------------------------------------------------------------- claims
\* C1: on a path p with no pending entry, CREATE then REMOVE on p, delivered
\* before a timer drains p, emits nothing for p (no notice, no debounced event,
\* not during the two calls and not later) and leaves no entry for p.
C1_CreateRemoveSilent ==
    pos >= 2 =>
    LET i == pos - 1
        p == input[pos].path
    IN  ( /\ IsOp(input[i], p, CREATE)
          /\ IsOp(input[i + 1], p, REMOVE)
          /\ ~log[i].had
          /\ ~DrainedIn(p, i, i) )
        => /\ \A k \in DOMAIN tx : tx[k].call >= i => ~Names(tx[k].ev, p)
           /\ p \notin DOMAIN operations_buffer

\* C3: on a path p with no pending entry, one or more consecutive WRITEs on p,
\* delivered before a timer drains p, emit NoticeWrite(p) exactly once, in the
\* first call, and then exactly one Write(p), fired by a timer armed by the last
\* WRITE (one quiet period after it).
C3_WritesCoalesce ==
    \A i \in 1..pos :
    LET j == pos
        p == input[pos].path
    IN  ( /\ ~aborted
          /\ \A m \in i..j : IsOp(input[m], p, WRITE)
          /\ ~log[i].had
          /\ ~DrainedIn(p, i, j - 1) )
        => /\ \E k \in IngestSent :
                /\ tx[k].call = i
                /\ \A n \in IngestSent :
                      (tx[n].call >= i /\ tx[n].ev = NoticeWrite(p)) <=> n = k
           /\ \A k \in TimerSent :
                (tx[k].call = j /\ Names(tx[k].ev, p))
                => tx[k].ev = Write(p) /\ tx[k].tid >= log[j].nid
           /\ Cardinality({k \in TimerSent : tx[k].call = j /\ tx[k].ev = Write(p)}) <= 1
           /\ queue = <<>>
                => \E k \in TimerSent : tx[k].call = j /\ tx[k].ev = Write(p)

\* C4: after a CREATE on a path p with no pending entry, WRITEs and CHMODs on p
\* delivered before a timer drains p emit no notice and keep the dominant at
\* CREATE; the only emission for p is one Create(p), fired by a timer armed by
\* the last of these raw events.
C4_CreateSuppresses ==
    \A i \in 1..pos :
    LET j == pos
        p == input[pos].path
    IN  ( /\ ~aborted
          /\ IsOp(input[i], p, CREATE)
          /\ \A m \in (i + 1)..j : IsOp(input[m], p, WRITE) \/ IsOp(input[m], p, CHMOD)
          /\ ~log[i].had
          /\ ~DrainedIn(p, i, j - 1) )
        => /\ \A k \in IngestSent : tx[k].call \notin (i + 1)..j
           /\ p \in DOMAIN operations_buffer => operations_buffer[p].op = CREATE
           /\ \A k \in DOMAIN tx :
                (tx[k].call >= i /\ Names(tx[k].ev, p))
                => /\ tx[k].ev = Create(p)
                   /\ tx[k].call = j
                   /\ tx[k].tid >= log[j].nid
           /\ Cardinality({k \in TimerSent : tx[k].call = j /\ tx[k].ev = Create(p)}) <= 1
           /\ queue = <<>>
                => \E k \in TimerSent : tx[k].call = j /\ tx[k].ev = Create(p)

\* C5: fresh debouncer, WRITE on A, RENAME on A with a cookie, CREATE on C # A
\* while A is gone from disk (no timer fired meanwhile): the notices are exactly
\* NoticeWrite(A), NoticeRemove(A); A's entry is promoted to REMOVE; the timers
\* then emit Remove(A) and Create(C) and nothing else.
C5_PartialRenameGone ==
    pos = 3 =>
    LET A == input[1].path
        C == input[3].path
    IN  ( /\ A # C
          /\ IsOp(input[1], A, WRITE)
          /\ IsOp(input[2], A, RENAME) /\ input[2].cookie # NoCookie
          /\ IsOp(input[3], C, CREATE)
          /\ ~log[3].srcExists
          /\ \A k \in TimerSent : tx[k].call = 3 )
        => /\ ~aborted
           /\ EventsAt(IngestSent) = <<NoticeWrite(A), NoticeRemove(A)>>
           /\ A \in DOMAIN operations_buffer => operations_buffer[A].op = REMOVE
           /\ \A k \in TimerSent : tx[k].ev \in {Remove(A), Create(C)}
           /\ queue = <<>>
                => /\ Cardinality({k \in TimerSent : tx[k].ev = Remove(A)}) = 1
                   /\ Cardinality({k \in TimerSent : tx[k].ev = Create(C)}) = 1

\* C10: between two NoticeWrite(p) there is always a drain of p's entry:
\* NoticeWrite(p) is sent at most once before the coalesced event of p fires.
C10_NoticeWriteOnce ==
    \A k1 \in DOMAIN tx : \A k2 \in DOMAIN tx : \A p \in Paths :
        (k1 < k2 /\ tx[k1].ev = NoticeWrite(p) /\ tx[k2].ev = NoticeWrite(p))
        => \E k \in TimerSent : k1 < k /\ k < k2 /\ Dest(tx[k].ev) = p

\* C11: between two NoticeRemove(p) a timer fires Remove(p) or Rename(p, _):
\* NoticeRemove(p) is sent at most once per debounced Remove or Rename of p.
C11_NoticeRemoveOnce ==
    \A k1 \in DOMAIN tx : \A k2 \in DOMAIN tx : \A p \in Paths :
        (k1 < k2 /\ tx[k1].ev = NoticeRemove(p) /\ tx[k2].ev = NoticeRemove(p))
        => \E k \in TimerSent :
              /\ k1 < k /\ k < k2
              /\ tx[k].ev = Remove(p) \/ (tx[k].ev[1] = "Rename" /\ tx[k].ev[2] = p)

\* the timers of the worker's queue that are scheduled for p and not cancelled
LiveTimers(p) ==
    {n \in DOMAIN queue : queue[n].path = p /\ queue[n].id \notin ignored}

\* C12: at every instant at most one non-cancelled timer is scheduled for a path.
C12_OneLiveTimer == \A p \in Paths : Cardinality(LiveTimers(p)) <= 1

\* C13: the call that delivers a raw event carrying RESCAN sends Rescan, and no
\* buffer entry ever has the dominant RESCAN.
C13_RescanForwarded ==
    /\ (pos >= 1 /\ RESCAN \in input[pos].op)
          => \E k \in IngestSent : tx[k].call = pos /\ tx[k].ev = Rescan
    /\ \A p \in DOMAIN operations_buffer : operations_buffer[p].op # RESCAN

\* raw event i is a single-bit RENAME on A taken as a first half, and raw event
\* i + 1 is on A itself and is not the matching second half; no timer drained A
\* in between
BrokenOnSource(i, A) ==
    /\ i >= 1
    /\ pos = i + 1
    /\ input[i].op = {RENAME}
    /\ input[i].path = A
    /\ input[i + 1].path = A
    /\ log[i + 1].open
    /\ ~DrainedIn(A, i, i)
    /\ \/ input[i + 1].op # {RENAME}
       \/ input[i].cookie = NoCookie
       \/ input[i].cookie # input[i + 1].cookie

\* C14: a first-half RENAME on A broken by another raw event on A itself does
\* not abort and is not lost: A's entry ends as CREATE, WRITE or REMOVE with a
\* live timer for A, and once the timers have expired a Create(A), Write(A) or
\* Remove(A) has fired, unless the entry collapsed (create then move out).
C14_BrokenRenameSurfaces ==
    pos >= 2 =>
    LET i == pos - 1
        A == input[pos].path
    IN  BrokenOnSource(i, A)
        => /\ ~aborted
           /\ A \in DOMAIN operations_buffer
                => /\ operations_buffer[A].op \in {CREATE, WRITE, REMOVE}
                   /\ \E n \in LiveTimers(A) : queue[n].id = operations_buffer[A].tid
           /\ \A k \in TimerSent :
                (tx[k].call = pos /\ Dest(tx[k].ev) = A)
                => tx[k].ev \in {Create(A), Write(A), Remove(A)}

\* the step is an ingest call that completes and leaves rename_path set
LeavesPairOpen ==
    /\ pos' = pos + 1
    /\ ~aborted'
    /\ rename_path' # NoPath

\* C15 (amended): after an ingest call that completes with rename_path set, the
\* call was a first-half RENAME on that path and the buffer has an entry for it;
\* the dominant is the one the first half left (CREATE, WRITE, CHMOD or RENAME),
\* or REMOVE when the raw event carried REMOVE as well.
C15_RenamePathHasEntry ==
    [][LeavesPairOpen =>
        /\ rename_path' = input[pos'].path
        /\ RENAME \in input[pos'].op
        /\ rename_path' \in DOMAIN operations_buffer'
        /\ operations_buffer'[rename_path'].op \in {CREATE, WRITE, CHMOD, RENAME, REMOVE}
        /\ operations_buffer'[rename_path'].op = REMOVE => REMOVE \in input[pos'].op]_vars

\* C15 (as claimed): the entry of rename_path has the dominant RENAME.
C15_RenamePathIsRename ==
    [][LeavesPairOpen =>
        /\ rename_path' \in DOMAIN operations_buffer'
        /\ operations_buffer'[rename_path'].op = RENAME]_vars

C15_Witness ==
    /\ pos >= 2
    /\ ~aborted
    /\ rename_path = "a"
    /\ "a" \in DOMAIN operations_buffer
    /\ operations_buffer["a"].op = WRITE
    /\ input[pos].op = {RENAME}
    /\ ~DrainedIn("a", pos, pos)

\* the step is an ingest call that runs the reconciliation of the open pair:
\* the raw event is not the matching second half, and rename_path exists on
\* disk (x) or is gone
ReconcileStep(x) ==
    /\ ~aborted
    /\ pos < Len(input)
    /\ pos' = pos + 1
    /\ rename_path \in DOMAIN operations_buffer
    /\ PairBroken(St, input[pos + 1].op, input[pos + 1].cookie)
    /\ log'[pos + 1].srcExists = x

\* the state check_partial_rename leaves in that step
Reconciled(x) ==
    check_partial_rename([St EXCEPT !.call = pos + 1], input[pos + 1].path,
                         input[pos + 1].op, input[pos + 1].cookie, x)

\* C16: when the pair is broken and the source still exists, the source entry
\* becomes CREATE if its rename_from is unset and WRITE if it is set, its timer
\* is rearmed (old id cancelled, a new one scheduled for the source path) and
\* rename_path is cleared, without aborting.
C16_SourceExists ==
    [][ReconcileStep(TRUE) =>
        LET src == operations_buffer[rename_path]
            r == Reconciled(TRUE)
        IN  /\ ~r.aborted
            /\ r.rename_path = NoPath
            /\ rename_path \in DOMAIN r.buf
            /\ r.buf[rename_path].op = IF src.from = NoPath THEN CREATE ELSE WRITE
            /\ src.tid \in r.ignored
            /\ r.buf[rename_path].tid = next_id
            /\ r.queue = Append(queue, [id |-> next_id, path |-> rename_path])]_vars

\* C17: when the pair is broken, the source is gone and its entry is CREATE, the
\* entry of rename_path is removed and its timer cancelled, nothing is sent,
\* rename_path is cleared and every other entry stays.
C17_CreateGoneDropsSource ==
    [][(ReconcileStep(FALSE) /\ operations_buffer[rename_path].op = CREATE) =>
        LET src == operations_buffer[rename_path]
            r == Reconciled(FALSE)
        IN  /\ ~r.aborted
            /\ r.rename_path = NoPath
            /\ rename_path \notin DOMAIN r.buf
            /\ src.tid \in r.ignored
            /\ r.tx = tx
            /\ r.queue = queue
            /\ \A q \in DOMAIN operations_buffer :
                  q # rename_path => q \in DOMAIN r.buf /\ r.buf[q] = operations_buffer[q]]_vars

\* ------------------------------------------------------------- transition table
\* the per-bit transition table: the dominant an incoming bit leaves on an entry
\* whose dominant is d (NoOp: no entry); Impossible marks the impossible cells
\* and Dropped the collapse of CREATE then REMOVE
Impossible == "impossible"
Dropped == "dropped"

TableDominant(bit, d) ==
    IF bit = CREATE
        THEN IF d = NoOp THEN CREATE ELSE IF d = REMOVE THEN WRITE ELSE Impossible
    ELSE IF bit = WRITE
        THEN IF d \in {NoOp, WRITE, CHMOD, RENAME} THEN WRITE
             ELSE IF d = CREATE THEN CREATE ELSE Impossible
    ELSE IF bit = CHMOD
        THEN IF d \in {NoOp, CHMOD, RENAME} THEN CHMOD
             ELSE IF d \in {CREATE, WRITE} THEN d ELSE Impossible
    ELSE IF bit = RENAME
        THEN IF d = NoOp THEN RENAME
             ELSE IF d \in {CREATE, WRITE, CHMOD, RENAME} THEN d ELSE Impossible
    ELSE IF d = CREATE THEN Dropped ELSE REMOVE

\* the notice the cell sends at once
TableNotice(bit, d, p) ==
    IF bit = WRITE /\ d \in {NoOp, CHMOD, RENAME} THEN <<NoticeWrite(p)>>
    ELSE IF bit \in {RENAME, REMOVE} /\ d \in {NoOp, WRITE, CHMOD} THEN <<NoticeRemove(p)>>
    ELSE <<>>

\* redundancy filtering of the table's text: prev is the dominant of the
\* existing entry (NoOp: no entry), x the outcome of the existence check
TableFilter(op, prev, x) ==
    IF prev = NoOp
        THEN IF {CREATE, REMOVE} \subseteq op
                 THEN IF x THEN op \ {REMOVE} ELSE op \ {CREATE}
                 ELSE op
    ELSE LET a == IF prev \in {CREATE, WRITE, CHMOD, RENAME} THEN {CREATE} ELSE {}
             b == IF prev = REMOVE THEN {REMOVE} ELSE {}
             c == IF prev = RENAME /\ op \ {RENAME} # {} THEN {RENAME} ELSE {}
         IN  op \ (a \cup b \cup c)

BitOrder == <<CREATE, WRITE, CHMOD, RENAME, REMOVE>>

\* the table applied to the bits of op in the fixed order, from bit n on:
\* r.dom is the dominant so far, r.out the notices so far
RECURSIVE TableRun(_, _, _, _)
TableRun(op, p, r, n) ==
    IF n > Len(BitOrder) \/ r.dom = Impossible THEN r
    ELSE IF BitOrder[n] \notin op THEN TableRun(op, p, r, n + 1)
    ELSE LET d == IF r.dom = Dropped THEN NoOp ELSE r.dom
         IN  TableRun(op, p,
                      [dom |-> TableDominant(BitOrder[n], d),
                       out |-> r.out \o TableNotice(BitOrder[n], d, p)],
                      n + 1)

\* the step is an ingest call for a path, started with no pair open
PlainStep ==
    /\ ~aborted
    /\ pos < Len(input)
    /\ pos' = pos + 1
    /\ rename_path = NoPath
    /\ input[pos + 1].path # NoPath
    /\ RESCAN \notin input[pos + 1].op

\* the dominant of p's entry before the step (NoOp: no entry)
DominantOf(buf, p) == IF p \in DOMAIN buf THEN buf[p].op ELSE NoOp

\* what the table says for the step: a single bit is looked up in its cell, a
\* multi-bit op is filtered against the entry and its bits applied in order
TableSays ==
    LET e == input[pos + 1]
        d == DominantOf(operations_buffer, e.path)
        eff == IF Cardinality(e.op) = 1 THEN e.op
               ELSE TableFilter(e.op, d, log'[pos + 1].pathExists)
    IN  TableRun(eff, e.path, [dom |-> d, out |-> <<>>], 1)

\* C18: with no pair open, a raw event on a path whose entry has dominant d
\* leaves the dominant (or drops the entry) and sends the notices that the
\* transition table says, for every cell that is not impossible, and does not
\* abort; a multi-bit op is filtered against the entry that was there and its
\* bits are applied in the order CREATE, WRITE, CHMOD, RENAME, REMOVE.
C18_TransitionTable ==
    [][(PlainStep /\ TableSays.dom # Impossible) =>
        LET p == input[pos + 1].path
            r == TableSays
        IN  /\ ~aborted'
            /\ DominantOf(operations_buffer', p) =
                  IF r.dom = Dropped THEN NoOp ELSE r.dom
            /\ Len(tx') = Len(tx) + Len(r.out)
            /\ \A n \in 1..Len(r.out) :
                  tx'[Len(tx) + n].ev = r.out[n] /\ tx'[Len(tx) + n].tid = NoTimer
            /\ \A q \in DOMAIN operations_buffer :
                  q # p => q \in DOMAIN operations_buffer'
                           /\ operations_buffer'[q] = operations_buffer[q]]_vars

C18_Witness ==
    /\ pos = Len(input)
    /\ pos >= 2
    /\ ~aborted
    /\ input[pos].op = {WRITE, RENAME, REMOVE}
    /\ log[pos].had
    /\ ~log[pos].open
    /\ "a" \in DOMAIN operations_buffer
    /\ operations_buffer["a"].op = REMOVE
    /\ \E k \in IngestSent : tx[k].call = pos /\ tx[k].ev = NoticeRemove("a")

\* the step is an ingest call, completed, for a path that has a pending entry
\* before and after it
PendingStep ==
    /\ ~aborted
    /\ pos < Len(input)
    /\ pos' = pos + 1
    /\ ~aborted'
    /\ input[pos + 1].path \in DOMAIN operations_buffer
    /\ input[pos + 1].path \in DOMAIN operations_buffer'

\* C19, first part: the call cancels the timer id of the entry and schedules a
\* new one for the path.
C19_Rearms ==
    PendingStep =>
        LET p == input[pos + 1].path IN
        /\ operations_buffer'[p].tid >= next_id
        /\ operations_buffer[p].tid \in ignored'
        /\ \E n \in DOMAIN queue' :
              queue'[n] = [id |-> operations_buffer'[p].tid, path |-> p]

\* C19, second part: a debounced event for p is fired by a timer scheduled no
\* earlier than the last raw event on p delivered before it.
C19_QuietPeriod ==
    \A k \in TimerSent : \A j \in 1..tx[k].call :
        input[j].path = Dest(tx[k].ev) => tx[k].tid >= log[j].nid

\* C19: every raw event on a path with a pending entry rearms the entry's
\* timer, so the debounced event never fires earlier than one quiet delay after
\* the most recent raw event on the path.
C19_EveryEventRearms == [][C19_Rearms]_vars /\ []C19_QuietPeriod

\* the step is an ingest call, started with no pair open, whose single bit
\* meets an impossible cell of the transition table
ImpossibleStep ==
    /\ PlainStep
    /\ Cardinality(input[pos + 1].op) = 1
    /\ TableSays.dom = Impossible
    /\ DominantOf(operations_buffer, input[pos + 1].path) = REMOVE

\* C20: a raw event that meets an impossible cell (WRITE, CHMOD or a first-half
\* RENAME on a REMOVE entry) is skipped: the debouncer does not abort and the
\* buffer and the rename state are left as they were.
C20_ImpossibleSkipped ==
    [][ImpossibleStep =>
        /\ ~aborted'
        /\ operations_buffer' = operations_buffer
        /\ rename_path' = rename_path
        /\ rename_cookie' = rename_cookie]_vars

\* the entry of p has a dominant and its timer id is a non-cancelled timer of
\* the worker's queue scheduled for p itself
WellArmed(buf, q, ign, p) ==
    /\ buf[p].op # NoOp
    /\ buf[p].tid # NoTimer
    /\ buf[p].tid \notin ign
    /\ \E n \in DOMAIN q : q[n] = [id |-> buf[p].tid, path |-> p]

\* C21, first part: after an ingest call that completes every entry is armed.
C21_ArmedAfterIngest ==
    (~aborted /\ pos' = pos + 1 /\ ~aborted')
    => \A p \in DOMAIN operations_buffer' :
          WellArmed(operations_buffer', queue', ignored', p)

\* C21, second part: once every raw event is delivered and every timer has
\* expired, the buffer is empty.
C21_AllDrained ==
    (~aborted /\ pos = Len(input) /\ queue = <<>>) => DOMAIN operations_buffer = {}

\* C21: after every ingest call each entry has its dominant set and a live
\* timer scheduled for its own path, so with no further raw events every entry
\* is drained and the buffer becomes empty.
C21_EntriesHaveLiveTimers == [][C21_ArmedAfterIngest]_vars /\ []C21_AllDrained

\* C22: an ingest call for a path that starts with rename_path set finds an
\* entry for rename_path in the buffer (the lookups guarded by expect succeed):
\* the timer worker has not drained the source entry of the open pair.
C22_SourceEntryPresent ==
    [][(~aborted /\ pos < Len(input) /\ pos' = pos + 1
        /\ input[pos + 1].path # NoPath /\ rename_path # NoPath)
       => rename_path \in DOMAIN operations_buffer]_vars

\* ------------------------------------------------------------- rename claims
IsRename(e, p, c) == e.path = p /\ e.op = {RENAME} /\ e.cookie = c

\* C2: fresh debouncer, RENAME on A with cookie c, at once RENAME on B # A with
\* the same cookie: the first call emits NoticeRemove(A), nothing else is ever
\* emitted but one Rename(A, B) by the timer; A's entry is gone and rename_path
\* is cleared.
C2_RenamePair ==
    (Len(input) >= 2 /\ pos \in {1, 2}) =>
    LET A == input[1].path
        B == input[2].path
        c == input[1].cookie
    IN  ( /\ A # B
          /\ c # NoCookie
          /\ IsRename(input[1], A, c)
          /\ IsRename(input[2], B, c)
          /\ \A k \in TimerSent : tx[k].call = 2 )
        => /\ ~aborted
           /\ EventsAt(IngestSent) = <<NoticeRemove(A)>>
           /\ tx[1].call = 1
           /\ pos = 2
                => /\ rename_path = NoPath
                   /\ A \notin DOMAIN operations_buffer
                   /\ EventsAt(TimerSent) \in {<<>>, <<Rename(A, B)>>}
                   /\ queue = <<>>
                        => EventsAt(DOMAIN tx) = <<NoticeRemove(A), Rename(A, B)>>

C2_Witness ==
    /\ pos = 2
    /\ IsRename(input[1], "a", 1)
    /\ IsRename(input[2], "b", 1)
    /\ queue = <<>>
    /\ EventsAt(DOMAIN tx) = <<NoticeRemove("a"), Rename("a", "b")>>

\* a chain starts at raw event i: RENAME A c1, RENAME B c1, RENAME B c2, on a
\* path A with no pending entry and with no pair open, and no timer drains A
\* before the second event or B before the third
ChainAt(i, A, B, c1, c2) ==
    /\ i + 2 <= Len(input)
    /\ pos >= i + 2
    /\ IsRename(input[i], A, c1)
    /\ IsRename(input[i + 1], B, c1)
    /\ IsRename(input[i + 2], B, c2)
    /\ ~log[i].had
    /\ ~log[i].open
    /\ ~DrainedIn(A, i, i)
    /\ ~DrainedIn(B, i + 1, i + 1)

\* the chain is completed by RENAME D c2 at raw event i + 3, B not drained before
ChainDone(i, A, B, D, c1, c2) ==
    /\ ChainAt(i, A, B, c1, c2)
    /\ i + 3 <= Len(input)
    /\ pos = i + 3
    /\ IsRename(input[i + 3], D, c2)
    /\ ~DrainedIn(B, i + 2, i + 2)

Distinct3(A, B, D) == A # B /\ A # D /\ B # D

\* the debounced events fired for A, B or D once the chain is completed
ChainFired(i, A, B, D) ==
    {k \in TimerSent : tx[k].call = i + 3 /\ Dest(tx[k].ev) \in {A, B, D}}

\* C6, first part: after the chain A -> B, B -> D the only debounced event for
\* A, B or D is Rename(A, D).
C6_ChainKeepsSource ==
    pos >= 4 =>
    LET i == pos - 3
        A == input[i].path
        B == input[i + 1].path
        D == input[i + 3].path
        c1 == input[i].cookie
        c2 == input[i + 2].cookie
    IN  (Distinct3(A, B, D) /\ c1 # NoCookie /\ c2 # NoCookie /\ ChainDone(i, A, B, D, c1, c2))
        => /\ ~aborted
           /\ \A k \in ChainFired(i, A, B, D) : tx[k].ev = Rename(A, D)
           /\ Cardinality(ChainFired(i, A, B, D)) <= 1
           /\ queue = <<>> => Cardinality(ChainFired(i, A, B, D)) = 1

\* the step delivers the second half of the open pair
MergeStep ==
    /\ ~aborted
    /\ pos < Len(input)
    /\ pos' = pos + 1
    /\ input[pos + 1].op = {RENAME}
    /\ IsSecondHalf(St, input[pos + 1].cookie)
    /\ rename_path \in DOMAIN operations_buffer
    /\ ~aborted'

\* C6, second part as the code has it: the merge gives the destination the
\* source's dominant; its rename_from is the source's rename_from when set and
\* rename_path otherwise, except that a CREATE source leaves rename_from unset.
C6_MergeRule ==
    MergeStep =>
        LET src == operations_buffer[rename_path]
            dst == operations_buffer'[input[pos + 1].path]
        IN  /\ dst.op = src.op
            /\ dst.from = IF src.op = CREATE THEN NoPath
                          ELSE IF src.from # NoPath THEN src.from
                          ELSE rename_path
            /\ rename_path' = NoPath

\* C6, second part as claimed: rename_from of the destination is the source's
\* rename_from when set and rename_path otherwise, whatever the source holds.
C6_MergeRuleClaimed ==
    MergeStep =>
        LET src == operations_buffer[rename_path]
            dst == operations_buffer'[input[pos + 1].path]
        IN  dst.from = IF src.from # NoPath THEN src.from ELSE rename_path

C7_ChainNotices ==
    pos >= 3 =>
    LET i == pos - 2
        A == input[i].path
        B == input[i + 1].path
        c1 == input[i].cookie
        c2 == input[i + 2].cookie
    IN  (A # B /\ c1 # NoCookie /\ c2 # NoCookie /\ ChainAt(i, A, B, c1, c2))
        => /\ ~aborted
           /\ rename_path = B
           /\ EventsAt({k \in IngestSent : tx[k].call >= i}) = <<NoticeRemove(A)>>
           /\ \A k \in IngestSent : tx[k].call >= i => tx[k].call = i

\* C7 (as claimed): the first-half RENAME on B emits NoticeRemove(B) at once.
C7_ChainNoticesClaimed ==
    pos >= 3 =>
    LET i == pos - 2
        A == input[i].path
        B == input[i + 1].path
        c1 == input[i].cookie
        c2 == input[i + 2].cookie
    IN  (A # B /\ c1 # NoCookie /\ c2 # NoCookie /\ ChainAt(i, A, B, c1, c2))
        => \E k \in IngestSent : tx[k].call = i + 2 /\ tx[k].ev = NoticeRemove(B)

C7_Witness ==
    /\ ChainAt(1, "a", "b", 1, 2)
    /\ pos = 3
    /\ "b" \in DOMAIN operations_buffer
    /\ operations_buffer["b"].op = RENAME
    /\ operations_buffer["b"].from = "a"

\* a first-half RENAME A c at raw event i and a RENAME B c at raw event j, with
\* only non-rename raw events on other paths between them, on a path A with no
\* pending entry and with no pair open; no timer drains A meanwhile
SplitPair(i, j, A, B, c) ==
    /\ i < j
    /\ j <= Len(input)
    /\ pos = j
    /\ IsRename(input[i], A, c)
    /\ IsRename(input[j], B, c)
    /\ \A m \in (i + 1)..(j - 1) :
          input[m].path \notin {A, B} /\ RENAME \notin input[m].op
    /\ ~log[i].had
    /\ ~log[i].open
    /\ ~DrainedIn(A, i, j - 1)

\* the RENAME at raw event j was taken as the second half of A -> B
PairedAt(j, A, B) ==
    /\ ~aborted
    /\ rename_path = NoPath
    /\ \A k \in TimerSent : (tx[k].call = j /\ Dest(tx[k].ev) = B) => tx[k].ev = Rename(A, B)
    /\ B \in DOMAIN operations_buffer
          => operations_buffer[B].op = RENAME /\ operations_buffer[B].from = A

RECURSIVE FireAll(_)
FireAll(s) == IF s.queue = <<>> THEN s ELSE FireAll(FireHead(s))

\* what a fresh debouncer emits for the single raw event e, up to the expiry of
\* its timers, when the path exists on disk (x) or does not
OnceOutput(e, x) ==
    LET s == FireAll(Event([Fresh EXCEPT !.call = 1], e.path, e.op, e.cookie,
                           FALSE, x /\ {CREATE, REMOVE} \subseteq e.op))
    IN  [n \in 1..Len(s.tx) |-> s.tx[n].ev]

\* every existence check of the two calls had the outcome x
SameDisk(x) ==
    /\ {CREATE, REMOVE} \subseteq input[1].op
          => log[1].pathExists = x /\ log[2].pathExists = x
    /\ log[2].open => log[2].srcExists = x

\* C9: a raw event delivered twice in a row to a fresh debouncer does not abort
\* and emits, notices and debounced event, what delivering it once emits.
C9_DuplicateIdempotent ==
    ( /\ Len(input) = 2
      /\ pos = 2
      /\ input[1] = input[2]
      /\ \A k \in TimerSent : tx[k].call = 2
      /\ \E x \in BOOLEAN : SameDisk(x) )
    => /\ ~aborted
       /\ queue = <<>>
            => \A x \in BOOLEAN :
                  SameDisk(x) => EventsAt(DOMAIN tx) = OnceOutput(input[1], x)

====
